---- MODULE Spec2Model ----
(***************************************************************************)
(* Model of flask_datadog.StatsD (src/flask_datadog.py): the configuration *)
(* defaulting of init_app / setup_middleware, the request-scoped tag list  *)
(* kept in flask.g, the before_request / after_request hooks and the       *)
(* incr / decr / gauge / timer helpers.                                    *)
(*                                                                         *)
(* Python strings on which the code computes (tags, header values) are     *)
(* sequences of one-character strings, so that str.lower, str.format,      *)
(* '%d' % n and int(s) are computed and not assumed.  Strings that are     *)
(* only passed along (metric names, host) are TLA+ strings.                *)
(* Time is counted in clock ticks, TicksPerSecond ticks to the second.     *)
(*                                                                         *)
(* Flask's part is modelled as far as the hooks depend on it: a context    *)
(* with its own flask.g per request, the registered before_request and     *)
(* after_request functions run in order, and flask.g raising RuntimeError  *)
(* where no context is active.  init_app is called while no request is in  *)
(* progress.                                                               *)
(***************************************************************************)
EXTENDS Integers, Sequences, FiniteSets, TLC

VARIABLES
    config,                \* StatsD.config: None or a dict (function on its keys)
    statsd,                \* StatsD.statsd: None or the DogStatsd client's settings
    is_enabled,            \* StatsD.is_enabled
    before_request_funcs,  \* how many times app.before_request(self.before_request) ran
    after_request_funcs,   \* how many times app.after_request(self.after_request) ran
    g,                     \* flask.g of each execution context
    pc,                    \* where each context is in Flask's request handling
    idx,                   \* hooks of the current phase already run, per context
    request,               \* flask.request of each context
    response,              \* the response being returned, per context
    monotonic,             \* time.monotonic()
    wall,                  \* time.time()
    timers,                \* the TimerWrapper handed out by timer(), or None
    nAdds,                 \* add_request_tags calls made by handlers, per request
    nTiming,               \* statsd.timing calls made by the hooks, per request
    nSize,                 \* statsd.histogram calls made by the hooks, per request
    mine,                  \* tags seeded or added during the current request, per context
    last                   \* the last call made: operation, context, arguments, result, statsd calls

vars == <<config, statsd, is_enabled, before_request_funcs, after_request_funcs, g, pc,
          idx, request, response, monotonic, wall, timers, nAdds, nTiming, nSize, mine,
          last>>

-----------------------------------------------------------------------------
(* Bounds of the model *)

MaxInit == 2          \* registrations of each hook (init_app calls that set up the middleware)
MaxAdds == 2          \* add_request_tags calls the handlers make in one request
MaxTime == 1          \* ticks of the clocks
MaxEpoch == 1         \* time.time() - time.monotonic() at start, at most
TicksPerSecond == 2000

-----------------------------------------------------------------------------
(* Python values *)

\* A value that may be None is None or Some(x); The(o) is the x of Some(x)
None == <<>>
Some(x) == <<x>>
The(o) == o[1]

Contexts == {"r1", "r2"}
NoContext == "outside"

RECURSIVE FormatInt(_)
FormatInt(n) ==
    LET d == <<"0", "1", "2", "3", "4", "5", "6", "7", "8", "9">>
    IN  IF n < 10 THEN <<d[n + 1]>> ELSE FormatInt(n \div 10) \o <<d[(n % 10) + 1]>>

DigitValue(c) ==
    CASE c = "0" -> 0 [] c = "1" -> 1 [] c = "2" -> 2 [] c = "3" -> 3 [] c = "4" -> 4
      [] c = "5" -> 5 [] c = "6" -> 6 [] c = "7" -> 7 [] c = "8" -> 8 [] c = "9" -> 9

RECURSIVE ParseInt(_)
ParseInt(s) ==
    IF Len(s) = 1 THEN DigitValue(s[1])
    ELSE 10 * ParseInt(SubSeq(s, 1, Len(s) - 1)) + DigitValue(s[Len(s)])

UpperCase == <<"A", "B", "C", "D", "E", "F", "G", "H", "I", "J", "K", "L", "M",
               "N", "O", "P", "Q", "R", "S", "T", "U", "V", "W", "X", "Y", "Z">>
LowerCase == <<"a", "b", "c", "d", "e", "f", "g", "h", "i", "j", "k", "l", "m",
               "n", "o", "p", "q", "r", "s", "t", "u", "v", "w", "x", "y", "z">>

LowerChar(c) ==
    IF \E i \in DOMAIN UpperCase : UpperCase[i] = c
    THEN LowerCase[CHOOSE i \in DOMAIN UpperCase : UpperCase[i] = c]
    ELSE c

Lower(s) == [i \in DOMAIN s |-> LowerChar(s[i])]

\* str(x) of a string or None: the text of a string is itself, of None is "None"
Str(o) == IF o = None THEN <<"N", "o", "n", "e">> ELSE The(o)

\* int(round(x)) of the fraction n / d, n >= 0: nearest, a tie to the even neighbour
Round(n, d) ==
    LET q == n \div d
        r == n % d
    IN  IF 2 * r < d THEN q
        ELSE IF 2 * r > d THEN q + 1
        ELSE IF q % 2 = 0 THEN q ELSE q + 1

\* int(round(1000 * elapsed)) of an elapsed time of t ticks
Millis(t) == Round(1000 * t, TicksPerSecond)

SetAttr(f, k, v) == [x \in (DOMAIN f) \cup {k} |-> IF x = k THEN v ELSE f[x]]
NoAttrs == [x \in {} |-> 0]

-----------------------------------------------------------------------------
(* Configuration: init_app and setup_middleware *)

Keys == {"STATSD_HOST", "STATSD_MAX_BUFFER_SIZE", "STATSD_NAMESPACE", "STATSD_PORT",
         "STATSD_TAGS", "STATSD_USEMS", "STATSD_SOCKET_PATH",
         "DATADOG_CONFIGURE_MIDDLEWARE", "DATADOG_RESPONSE_SIZE_METRIC_NAME",
         "DATADOG_RESPONSE_METRIC_NAME", "DATADOG_RESPONSE_SAMPLE_RATE",
         "DATADOG_RESPONSE_AUTO_TAG", "DATADOG_RESPONSE_ENDPOINT_TAG_NAME",
         "DATADOG_RESPONSE_METHOD_TAG_NAME"}

\* (mutant) the default overwrites the value supplied
setdefault_overwrite(d, k, v) == SetAttr(d, k, v)

\* dict.setdefault(key, value)
setdefault(d, k, v) == IF k \in DOMAIN d THEN d ELSE SetAttr(d, k, v)

\* init_app: "Set default values for expected config properties"
statsd_defaults(cfg) ==
    LET c1 == setdefault(cfg, "STATSD_HOST", "localhost")
        c2 == setdefault(c1, "STATSD_MAX_BUFFER_SIZE", 50)
        c3 == setdefault(c2, "STATSD_NAMESPACE", None)
        c4 == setdefault(c3, "STATSD_PORT", 8125)
        c5 == setdefault(c4, "STATSD_TAGS", None)
        c6 == setdefault(c5, "STATSD_USEMS", FALSE)
    IN  setdefault(c6, "STATSD_SOCKET_PATH", None)

\* setup_middleware: the defaults of the middleware's settings
middleware_defaults(cfg) ==
    LET c1 == setdefault(cfg, "DATADOG_CONFIGURE_MIDDLEWARE", TRUE)
        c2 == setdefault(c1, "DATADOG_RESPONSE_SIZE_METRIC_NAME", "flask.response.size")
        c3 == setdefault(c2, "DATADOG_RESPONSE_METRIC_NAME", "flask.response.time")
        c4 == setdefault(c3, "DATADOG_RESPONSE_SAMPLE_RATE", 1)
        c5 == setdefault(c4, "DATADOG_RESPONSE_AUTO_TAG", TRUE)
        c6 == setdefault(c5, "DATADOG_RESPONSE_ENDPOINT_TAG_NAME",
                         <<"e", "n", "d", "p", "o", "i", "n", "t">>)
    IN  setdefault(c6, "DATADOG_RESPONSE_METHOD_TAG_NAME", <<"m", "e", "t", "h", "o", "d">>)

\* init_app: which dict becomes self.config
resolve_config(arg, self_config, app_config) ==
    IF arg # None THEN The(arg)
    ELSE IF self_config = None THEN app_config
    ELSE The(self_config)

\* DogStatsd(host=..., port=..., ...): the client init_app builds
DogStatsd(cfg) ==
    [host            |-> cfg["STATSD_HOST"],
     port            |-> cfg["STATSD_PORT"],
     max_buffer_size |-> cfg["STATSD_MAX_BUFFER_SIZE"],
     namespace       |-> cfg["STATSD_NAMESPACE"],
     constant_tags   |-> cfg["STATSD_TAGS"],
     use_ms          |-> cfg["STATSD_USEMS"],
     socket_path     |-> cfg["STATSD_SOCKET_PATH"]]

\* setup_middleware: how many times each hook gets registered by one call
setup_middleware(cfg) == IF cfg["DATADOG_CONFIGURE_MIDDLEWARE"] THEN 1 ELSE 0

\* A configuration in which every setting differs from its default
Override ==
    [k \in Keys |->
        CASE k = "STATSD_HOST" -> "statsd.internal"
          [] k = "STATSD_MAX_BUFFER_SIZE" -> 10
          [] k = "STATSD_NAMESPACE" -> Some("shop")
          [] k = "STATSD_PORT" -> 9125
          [] k = "STATSD_TAGS" -> Some(<< <<"e", "n", "v", ":", "p">> >>)
          [] k = "STATSD_USEMS" -> TRUE
          [] k = "STATSD_SOCKET_PATH" -> Some("/run/dsd.sock")
          [] k = "DATADOG_CONFIGURE_MIDDLEWARE" -> FALSE
          [] k = "DATADOG_RESPONSE_SIZE_METRIC_NAME" -> "shop.size"
          [] k = "DATADOG_RESPONSE_METRIC_NAME" -> "shop.time"
          [] k = "DATADOG_RESPONSE_SAMPLE_RATE" -> 0
          [] k = "DATADOG_RESPONSE_AUTO_TAG" -> FALSE
          [] k = "DATADOG_RESPONSE_ENDPOINT_TAG_NAME" -> <<"r">>
          [] k = "DATADOG_RESPONSE_METHOD_TAG_NAME" -> <<"v">>]

Restrict(f, S) == [x \in S |-> f[x]]

\* The dicts a caller (or app.config) supplies: Override cut down to some of its keys.
\* SuppliedConfigs: no key, any one key, all keys but one, all keys.
SuppliedConfigs ==
    { Restrict(Override, S) :
        S \in {{}, Keys} \cup { {k} : k \in Keys } \cup { Keys \ {k} : k \in Keys } }

\* The dicts supplied where requests are served: the settings the hooks read
ServingConfigs ==
    { Restrict(Override, S) :
        S \in { {},
                {"STATSD_USEMS"},
                {"DATADOG_RESPONSE_AUTO_TAG"},
                Keys \ {"DATADOG_CONFIGURE_MIDDLEWARE", "DATADOG_RESPONSE_AUTO_TAG"} } }

-----------------------------------------------------------------------------
(* Request-scoped storage: get_request_tags and add_request_tags *)

\* flask.g is usable (no RuntimeError) in context c
HasG(G, c) == c \in Contexts /\ G[c].active

\* g.get(name, default), the value found wrapped in Some
GGet(G, c, name, default) ==
    IF name \in DOMAIN G[c].attrs THEN Some(G[c].attrs[name]) ELSE default

\* g.<name> = value
GSet(G, c, name, value) == [G EXCEPT ![c].attrs = SetAttr(@, name, value)]

\* (mutant) the tag list is read from one place for all contexts
get_request_tags_shared(G, c) ==
    IF HasG(G, c) THEN The(GGet(G, "r1", "request_tags", Some(<<>>))) ELSE <<>>

get_request_tags(G, c) ==
    IF HasG(G, c) THEN The(GGet(G, c, "request_tags", Some(<<>>))) ELSE <<>>

\* (mutant) tags already present are not added again
list_add_dedup(current_tags, tags) ==
    current_tags \o SelectSeq(tags, LAMBDA t : \A i \in DOMAIN current_tags : current_tags[i] # t)

\* current_tags + tags
list_add(current_tags, tags) == current_tags \o tags

\* add_request_tags: flask.g afterwards
add_request_tags_g(G, c, tags) ==
    IF HasG(G, c)
    THEN GSet(G, c, "request_tags", list_add(get_request_tags(G, c), tags))
    ELSE G

\* (mutant) without a context the tags given are returned
add_request_tags_ret_unguarded(G, c, tags) ==
    IF HasG(G, c) THEN add_request_tags_g(G, c, tags)[c].attrs["request_tags"] ELSE tags

\* add_request_tags: what it returns
add_request_tags_ret(G, c, tags) ==
    IF HasG(G, c)
    THEN add_request_tags_g(G, c, tags)[c].attrs["request_tags"]
    ELSE <<>>

-----------------------------------------------------------------------------
(* The request hooks *)

\* '{tag_name}:{value}'.format(...)
format_tag(tag_name, value) == tag_name \o <<":">> \o value

\* before_request: the list the tag list is reset to
fresh_tags == <<>>

\* before_request: the default request tags
default_request_tags(cfg, req) ==
    << format_tag(cfg["DATADOG_RESPONSE_ENDPOINT_TAG_NAME"], Lower(Str(req.endpoint))),
       format_tag(cfg["DATADOG_RESPONSE_METHOD_TAG_NAME"], Lower(req.method)) >>

\* before_request: flask.g afterwards
before_request_g(G, c, cfg, req, now) ==
    LET G1 == GSet(G, c, "request_start_time", now)
        G2 == GSet(G1, c, "request_tags", fresh_tags)
    IN  IF cfg["DATADOG_RESPONSE_AUTO_TAG"]
        THEN add_request_tags_g(G2, c, default_request_tags(cfg, req))
        ELSE G2

\* after_request: 'status_code:%d' % response.status_code
status_tag(resp) ==
    <<"s", "t", "a", "t", "u", "s", "_", "c", "o", "d", "e", ":">> \o FormatInt(resp.status_code)

\* after_request: "Return early if we don't have the start time"
has_start_time(G, c) == "request_start_time" \in DOMAIN G[c].attrs

\* after_request: the clock read for the end of the request (time.time())
end_clock(mono_now, wall_now) == wall_now

\* after_request: the elapsed time reported
elapsed_time(G, c, sd, now) ==
    LET given   == GGet(G, c, "request_elapsed_time", None)   \* g.get(...): None when unset
        absent  == given = None \/ The(given) = 0                \* `if not elapsed`
        elapsed == IF absent THEN now - G[c].attrs["request_start_time"] ELSE The(given)
    IN  IF sd.use_ms THEN Millis(elapsed) ELSE elapsed

\* (mutant) the status tag is added before the start time is looked for
after_request_g_always(G, c, cfg, resp) ==
    IF cfg["DATADOG_RESPONSE_AUTO_TAG"]
    THEN add_request_tags_g(G, c, <<status_tag(resp)>>)
    ELSE G

\* after_request: flask.g afterwards
after_request_g(G, c, cfg, resp) ==
    IF ~has_start_time(G, c) THEN G
    ELSE IF cfg["DATADOG_RESPONSE_AUTO_TAG"]
         THEN add_request_tags_g(G, c, <<status_tag(resp)>>)
         ELSE G

\* (mutant) a missing content-length counts as 0 and is reported
size_metric_always(cfg, resp, tags, sample_rate) ==
    << [method      |-> "histogram",
        metric      |-> cfg["DATADOG_RESPONSE_SIZE_METRIC_NAME"],
        value       |-> IF "content-length" \in DOMAIN resp.headers
                        THEN ParseInt(resp.headers["content-length"]) ELSE 0,
        tags        |-> tags,
        sample_rate |-> sample_rate] >>

\* after_request: the response-size metric
size_metric(cfg, resp, tags, sample_rate) ==
    IF "content-length" \in DOMAIN resp.headers
    THEN << [method      |-> "histogram",
             metric      |-> cfg["DATADOG_RESPONSE_SIZE_METRIC_NAME"],
             value       |-> ParseInt(resp.headers["content-length"]),
             tags        |-> tags,
             sample_rate |-> sample_rate] >>
    ELSE <<>>

\* after_request: the calls made on self.statsd, in order
after_request_out(G, c, cfg, sd, resp, now) ==
    IF ~has_start_time(G, c) THEN <<>>
    ELSE LET tags        == get_request_tags(after_request_g(G, c, cfg, resp), c)
             sample_rate == cfg["DATADOG_RESPONSE_SAMPLE_RATE"]
         IN  << [method      |-> "timing",
                 metric      |-> cfg["DATADOG_RESPONSE_METRIC_NAME"],
                 value       |-> elapsed_time(G, c, sd, now),
                 tags        |-> tags,
                 sample_rate |-> sample_rate] >>
             \o size_metric(cfg, resp, tags, sample_rate)

\* after_request: what it returns
after_request_ret(resp) == resp

-----------------------------------------------------------------------------
(* The metric helpers: timer, incr, decr, gauge *)

\* The keyword arguments a caller passes: no tags, tags=None, or a list of tags
TagAB == <<"a", ":", "b">>
TagCD == <<"c", ":", "d">>
CallerKwargs == { NoAttrs, [x \in {"tags"} |-> None], [x \in {"tags"} |-> Some(<<>>)],
                  [x \in {"tags"} |-> Some(<<TagCD>>)] }

\* kwargs.get('tags')
kwargs_tags(kwargs) == IF "tags" \in DOMAIN kwargs THEN kwargs["tags"] ELSE None

\* (mutant) the request's tags are put before the caller's
setdefault_tags_merge(G, c, kwargs) ==
    IF kwargs_tags(kwargs) = None
    THEN SetAttr(kwargs, "tags", Some(get_request_tags(G, c)))
    ELSE SetAttr(kwargs, "tags", Some(get_request_tags(G, c) \o The(kwargs_tags(kwargs))))

\* _setdefault_tags
setdefault_tags(G, c, kwargs) ==
    IF kwargs_tags(kwargs) = None
    THEN SetAttr(kwargs, "tags", Some(get_request_tags(G, c)))
    ELSE kwargs

\* incr / decr / gauge: the calls made on self.statsd
forward(enabled, method, G, c, kwargs) ==
    IF enabled
    THEN << [method |-> method, args |-> <<"m">>, kwargs |-> setdefault_tags(G, c, kwargs)] >>
    ELSE <<>>

\* timer: the TimerWrapper(self.statsd, *args, **kwargs) it returns
TimerWrapper(enabled, sd, G, c, kwargs) ==
    LET kw == IF enabled THEN setdefault_tags(G, c, kwargs) ELSE kwargs
    IN  [statsd      |-> sd,
         metric      |-> "m",
         tags        |-> kwargs_tags(kw),
         sample_rate |-> 1,
         use_ms      |-> None,
         started     |-> FALSE,
         start       |-> 0]

\* _TimedContextManagerDecorator._send: the calls made on self.statsd
timer_send(t, now) ==
    LET elapsed == now - t.start
        use_ms  == IF t.use_ms # None THEN The(t.use_ms) ELSE TRUE
        value   == IF use_ms THEN Millis(elapsed) ELSE elapsed
    IN  IF t.statsd # None
        THEN << [method |-> "timing", metric |-> t.metric, value |-> value,
                 tags |-> t.tags, sample_rate |-> t.sample_rate] >>
        ELSE <<>>

-----------------------------------------------------------------------------
(* Requests and responses *)

StatusCodes == { 200, 404 }
HeaderSets == { NoAttrs, [x \in {"content-length"} |-> <<"5", "1", "2">>] }
ElapsedGiven == { 0, 3 }      \* what an upstream layer leaves in g.request_elapsed_time
ViewTags == { <<TagAB>>, <<TagAB, TagCD>> }

NoRequest == [endpoint |-> None, method |-> <<>>]
NoResponse == [status_code |-> 0, headers |-> NoAttrs]
NoG == [active |-> FALSE, attrs |-> NoAttrs]

Quiet == [op |-> "none", ctx |-> NoContext, arg |-> None, ret |-> None, out |-> <<>>]

Call(op, c, arg, ret, out) == [op |-> op, ctx |-> c, arg |-> arg, ret |-> ret, out |-> out]

CountOf(out, method) == Cardinality({ i \in DOMAIN out : out[i].method = method })

SeqRange(s) == { s[i] : i \in DOMAIN s }

-----------------------------------------------------------------------------
(* The state after construction: StatsD(app=None, config=c) or StatsD(app, config=c) *)

\* app.config, which init_app reads only when it is given no config and has none
AppConfigs(arg, self_config, configs) ==
    IF arg = None /\ self_config = None THEN configs ELSE {NoAttrs}

Constructed(configs) ==
    /\ \E c \in { Some(d) : d \in configs } \cup {None}, eager \in BOOLEAN :
       \E app_config \in AppConfigs(None, c, configs) :
         LET supplied == resolve_config(None, c, app_config)
             cfg      == middleware_defaults(statsd_defaults(supplied))
         IN  IF eager
             THEN /\ config = Some(cfg)
                  /\ statsd = Some(DogStatsd(cfg))
                  /\ is_enabled = TRUE
                  /\ before_request_funcs = setup_middleware(cfg)
                  /\ after_request_funcs = setup_middleware(cfg)
                  /\ last = Call("init_app", NoContext, supplied, None, <<>>)
             ELSE /\ config = c
                  /\ statsd = None
                  /\ is_enabled = FALSE
                  /\ before_request_funcs = 0
                  /\ after_request_funcs = 0
                  /\ last = Quiet
    /\ g = [c \in Contexts |-> NoG]
    /\ pc = [c \in Contexts |-> "idle"]
    /\ idx = [c \in Contexts |-> 0]
    /\ request = [c \in Contexts |-> NoRequest]
    /\ response = [c \in Contexts |-> NoResponse]
    /\ timers = None
    /\ nAdds = [c \in Contexts |-> 0]
    /\ nTiming = [c \in Contexts |-> 0]
    /\ nSize = [c \in Contexts |-> 0]
    /\ mine = [c \in Contexts |-> {}]

\* The clocks as the process starts: time.time() is ahead of time.monotonic() by
\* up to MaxEpoch ticks
Clocks == monotonic = 0 /\ wall \in 0..MaxEpoch

\* The clocks where no step reads them
ClocksAtRest == monotonic = 0 /\ wall = 0

Init == Constructed(ServingConfigs) /\ Clocks

\* The same, for the specifications in which no step reads a clock
InitAtRest == Constructed(ServingConfigs) /\ ClocksAtRest

-----
(* Operations *)

\* StatsD.init_app(app, config=arg), called while the app is being set up
init_app(arg, app_config) ==
    LET supplied == resolve_config(arg, config, app_config)
        cfg      == middleware_defaults(statsd_defaults(supplied))
    IN  /\ \A c \in Contexts : pc[c] = "idle"
        /\ before_request_funcs + setup_middleware(cfg) <= MaxInit
        /\ config' = Some(cfg)
        /\ statsd' = Some(DogStatsd(cfg))
        /\ before_request_funcs' = before_request_funcs + setup_middleware(cfg)
        /\ after_request_funcs' = after_request_funcs + setup_middleware(cfg)
        /\ is_enabled' = TRUE
        /\ last' = Call("init_app", NoContext, supplied, None, <<>>)
        /\ UNCHANGED <<g, pc, idx, request, response, monotonic, wall, timers, nAdds,
                       nTiming, nSize, mine>>

\* Flask pushes the context of a new request: a fresh flask.g
RequestBegin(c, req) ==
    /\ pc[c] = "idle"
    /\ pc' = [pc EXCEPT ![c] = "preprocess"]
    /\ idx' = [idx EXCEPT ![c] = 0]
    /\ g' = [g EXCEPT ![c] = [active |-> TRUE, attrs |-> NoAttrs]]
    /\ request' = [request EXCEPT ![c] = req]
    /\ nAdds' = [nAdds EXCEPT ![c] = 0]
    /\ nTiming' = [nTiming EXCEPT ![c] = 0]
    /\ nSize' = [nSize EXCEPT ![c] = 0]
    /\ mine' = [mine EXCEPT ![c] = {}]
    /\ last' = Quiet
    /\ UNCHANGED <<config, statsd, is_enabled, before_request_funcs, after_request_funcs,
                   response, monotonic, wall, timers>>

\* Flask runs the next registered before_request function: StatsD.before_request
before_request(c) ==
    /\ pc[c] = "preprocess"
    /\ idx[c] < before_request_funcs
    /\ idx' = [idx EXCEPT ![c] = @ + 1]
    /\ g' = before_request_g(g, c, The(config), request[c], monotonic)
    /\ mine' = [mine EXCEPT ![c] =
                   IF The(config)["DATADOG_RESPONSE_AUTO_TAG"]
                   THEN @ \cup SeqRange(default_request_tags(The(config), request[c]))
                   ELSE @]
    /\ last' = Call("before_request", c, None, None, <<>>)
    /\ UNCHANGED <<config, statsd, is_enabled, before_request_funcs, after_request_funcs,
                   pc, request, response, monotonic, wall, timers, nAdds, nTiming, nSize>>

\* All before_request functions have run: Flask calls the view
Dispatch(c) ==
    /\ pc[c] = "preprocess"
    /\ idx[c] = before_request_funcs
    /\ pc' = [pc EXCEPT ![c] = "view"]
    /\ last' = Quiet
    /\ UNCHANGED <<config, statsd, is_enabled, before_request_funcs, after_request_funcs,
                   g, idx, request, response, monotonic, wall, timers, nAdds, nTiming,
                   nSize, mine>>

\* The code calling the client: a view of a request in progress, or code that runs
\* outside any request context
InView(c) == IF c = NoContext THEN TRUE ELSE pc[c] = "view"

\* get_request_tags(), from a view or outside any context
GetRequestTags(c) ==
    /\ InView(c)
    /\ last' = Call("get_request_tags", c, None, get_request_tags(g, c), <<>>)
    /\ UNCHANGED <<config, statsd, is_enabled, before_request_funcs, after_request_funcs,
                   g, pc, idx, request, response, monotonic, wall, timers, nAdds, nTiming,
                   nSize, mine>>

\* The code that adds tags: a view, a before_request function of another extension
\* (registered before or after ours), or code outside any request context
InHandler(c) == IF c = NoContext THEN TRUE ELSE pc[c] \in {"preprocess", "view"}

\* add_request_tags(tags)
AddRequestTags(c, tags) ==
    /\ InHandler(c)
    /\ IF c = NoContext THEN TRUE ELSE nAdds[c] < MaxAdds
    /\ g' = add_request_tags_g(g, c, tags)
    /\ nAdds' = IF c = NoContext THEN nAdds ELSE [nAdds EXCEPT ![c] = @ + 1]
    /\ mine' = IF c = NoContext THEN mine ELSE [mine EXCEPT ![c] = @ \cup SeqRange(tags)]
    /\ last' = Call("add_request_tags", c, tags, add_request_tags_ret(g, c, tags), <<>>)
    /\ UNCHANGED <<config, statsd, is_enabled, before_request_funcs, after_request_funcs,
                   pc, idx, request, response, monotonic, wall, timers, nTiming, nSize>>

\* incr / decr / gauge share this step; method is the DogStatsd method forwarded to
Forward(op, method, c, kwargs) ==
    /\ InView(c)
    /\ last' = Call(op, c, kwargs, None, forward(is_enabled, method, g, c, kwargs))
    /\ UNCHANGED <<config, statsd, is_enabled, before_request_funcs, after_request_funcs,
                   g, pc, idx, request, response, monotonic, wall, timers, nAdds, nTiming,
                   nSize, mine>>

incr(c, kwargs) == Forward("incr", "increment", c, kwargs)

decr(c, kwargs) == Forward("decr", "decrement", c, kwargs)

gauge(c, kwargs) == Forward("gauge", "gauge", c, kwargs)

\* timer(**kwargs): hands out a TimerWrapper
timer(c, kwargs) ==
    /\ InView(c)
    /\ timers = None
    /\ timers' = Some(TimerWrapper(is_enabled, statsd, g, c, kwargs))
    /\ last' = Call("timer", c, kwargs, timers', <<>>)
    /\ UNCHANGED <<config, statsd, is_enabled, before_request_funcs, after_request_funcs,
                   g, pc, idx, request, response, monotonic, wall, nAdds, nTiming, nSize,
                   mine>>

\* TimerWrapper.start(): __enter__ notes the start time
TimerStart ==
    /\ timers # None
    /\ ~The(timers).started
    /\ timers' = Some([The(timers) EXCEPT !.started = TRUE, !.start = monotonic])
    /\ last' = Quiet
    /\ UNCHANGED <<config, statsd, is_enabled, before_request_funcs, after_request_funcs,
                   g, pc, idx, request, response, monotonic, wall, nAdds, nTiming, nSize,
                   mine>>

\* TimerWrapper.stop(): __exit__ calls _send
TimerStop ==
    /\ timers # None
    /\ The(timers).started
    /\ timers' = None
    /\ last' = Call("timer_stop", NoContext, timers, None,
                    timer_send(The(timers), monotonic))
    /\ UNCHANGED <<config, statsd, is_enabled, before_request_funcs, after_request_funcs,
                   g, pc, idx, request, response, monotonic, wall, nAdds, nTiming, nSize,
                   mine>>

\* An upstream layer leaves the elapsed time it measured in g.request_elapsed_time
SetElapsed(c, v) ==
    /\ pc[c] = "view"
    /\ "request_elapsed_time" \notin DOMAIN g[c].attrs
    /\ g' = GSet(g, c, "request_elapsed_time", v)
    /\ last' = Quiet
    /\ UNCHANGED <<config, statsd, is_enabled, before_request_funcs, after_request_funcs,
                   pc, idx, request, response, monotonic, wall, timers, nAdds, nTiming,
                   nSize, mine>>

\* The view returns a response
Respond(c, resp) ==
    /\ pc[c] = "view"
    /\ pc' = [pc EXCEPT ![c] = "process_response"]
    /\ idx' = [idx EXCEPT ![c] = 0]
    /\ response' = [response EXCEPT ![c] = resp]
    /\ last' = Quiet
    /\ UNCHANGED <<config, statsd, is_enabled, before_request_funcs, after_request_funcs,
                   g, request, monotonic, wall, timers, nAdds, nTiming, nSize, mine>>

\* A before_request function of another extension returns a response: Flask skips
\* the remaining before_request functions and the view, and still runs after_request
ShortCircuit(c, resp) ==
    /\ pc[c] = "preprocess"
    /\ pc' = [pc EXCEPT ![c] = "process_response"]
    /\ idx' = [idx EXCEPT ![c] = 0]
    /\ response' = [response EXCEPT ![c] = resp]
    /\ last' = Quiet
    /\ UNCHANGED <<config, statsd, is_enabled, before_request_funcs, after_request_funcs,
                   g, request, monotonic, wall, timers, nAdds, nTiming, nSize, mine>>

\* Flask runs the next registered after_request function: StatsD.after_request
after_request(c) ==
    LET out == after_request_out(g, c, The(config), The(statsd), response[c],
                                 end_clock(monotonic, wall))
    IN  /\ pc[c] = "process_response"
        /\ idx[c] < after_request_funcs
        /\ idx' = [idx EXCEPT ![c] = @ + 1]
        /\ g' = after_request_g(g, c, The(config), response[c])
        /\ mine' = [mine EXCEPT ![c] =
                       IF has_start_time(g, c) /\ The(config)["DATADOG_RESPONSE_AUTO_TAG"]
                       THEN @ \cup {status_tag(response[c])}
                       ELSE @]
        /\ nTiming' = [nTiming EXCEPT ![c] = @ + CountOf(out, "timing")]
        /\ nSize' = [nSize EXCEPT ![c] = @ + CountOf(out, "histogram")]
        /\ last' = Call("after_request", c, response[c], after_request_ret(response[c]), out)
        /\ UNCHANGED <<config, statsd, is_enabled, before_request_funcs,
                       after_request_funcs, pc, request, response, monotonic, wall, timers,
                       nAdds>>

\* All after_request functions have run: Flask pops the context, flask.g is gone
RequestEnd(c) ==
    /\ pc[c] = "process_response"
    /\ idx[c] = after_request_funcs
    /\ pc' = [pc EXCEPT ![c] = "idle"]
    /\ idx' = [idx EXCEPT ![c] = 0]
    /\ g' = [g EXCEPT ![c] = NoG]
    /\ request' = [request EXCEPT ![c] = NoRequest]
    /\ response' = [response EXCEPT ![c] = NoResponse]
    /\ nAdds' = [nAdds EXCEPT ![c] = 0]
    /\ nTiming' = [nTiming EXCEPT ![c] = 0]
    /\ nSize' = [nSize EXCEPT ![c] = 0]
    /\ mine' = [mine EXCEPT ![c] = {}]
    /\ last' = Quiet
    /\ UNCHANGED <<config, statsd, is_enabled, before_request_funcs, after_request_funcs,
                   monotonic, wall, timers>>

\* Time passes: both clocks advance
Tick ==
    /\ monotonic < MaxTime
    /\ monotonic' = monotonic + 1
    /\ wall' = wall + 1
    /\ last' = Quiet
    /\ UNCHANGED <<config, statsd, is_enabled, before_request_funcs, after_request_funcs,
                   g, pc, idx, request, response, timers, nAdds, nTiming, nSize, mine>>

Responses == [status_code : StatusCodes, headers : HeaderSets]

Requests == { [endpoint |-> Some(<<"I", "n", "d", "e", "x">>), method |-> <<"G", "E", "T">>],
              [endpoint |-> None, method |-> <<"P", "U", "T">>] }

\* One request at a time: the requests are served in context r1
Serial == {"r1"}

ServingArgs == { Some(d) : d \in ServingConfigs } \cup {None}

Next ==
    \/ \E arg \in ServingArgs :
         \E app_config \in AppConfigs(arg, config, ServingConfigs) : init_app(arg, app_config)
    \/ \E c \in Serial, req \in Requests : RequestBegin(c, req)
    \/ \E c \in Serial : before_request(c)
    \/ \E c \in Serial : Dispatch(c)
    \/ \E c \in Serial : GetRequestTags(c)
    \/ \E c \in Serial, tags \in ViewTags : AddRequestTags(c, tags)
    \/ \E c \in Serial, v \in ElapsedGiven : SetElapsed(c, v)
    \/ \E c \in Serial, resp \in Responses : Respond(c, resp)
    \/ \E c \in Serial, resp \in Responses : ShortCircuit(c, resp)
    \/ \E c \in Serial : after_request(c)
    \/ \E c \in Serial : RequestEnd(c)
    \/ Tick

Spec == Init /\ [][Next]_vars

\* The metric helpers, called from a view and from outside any request context
NextHelpers ==
    \/ \E c \in Serial, req \in Requests : RequestBegin(c, req)
    \/ \E c \in Serial : before_request(c)
    \/ \E c \in Serial : Dispatch(c)
    \/ \E c \in Serial, tags \in ViewTags : AddRequestTags(c, tags)
    \/ \E c \in Serial \cup {NoContext}, kwargs \in CallerKwargs : incr(c, kwargs)
    \/ \E c \in Serial \cup {NoContext}, kwargs \in CallerKwargs : decr(c, kwargs)
    \/ \E c \in Serial \cup {NoContext}, kwargs \in CallerKwargs : gauge(c, kwargs)
    \/ \E c \in Serial \cup {NoContext}, kwargs \in CallerKwargs : timer(c, kwargs)
    \/ TimerStart
    \/ TimerStop

SpecHelpers == InitAtRest /\ [][NextHelpers]_vars

\* The tag helpers, called from a view and from outside any request context,
\* between and during requests
NextOutside ==
    \/ \E c \in Serial, req \in Requests : RequestBegin(c, req)
    \/ \E c \in Serial : before_request(c)
    \/ \E c \in Serial : Dispatch(c)
    \/ \E c \in Serial \cup {NoContext} : GetRequestTags(c)
    \/ \E c \in Serial \cup {NoContext}, tags \in ViewTags : AddRequestTags(c, tags)
    \/ \E c \in Serial, resp \in Responses : Respond(c, resp)
    \/ \E c \in Serial : after_request(c)
    \/ \E c \in Serial : RequestEnd(c)

SpecOutside == InitAtRest /\ [][NextOutside]_vars

\* Two requests in progress at once, each in its own context; the view of r1 adds
\* the tag a:b, the view of r2 the tag c:d
OwnTags(c) == IF c = "r1" THEN <<TagAB>> ELSE <<TagCD>>

NextConcurrent ==
    \/ \E c \in Contexts, req \in Requests : RequestBegin(c, req)
    \/ \E c \in Contexts : before_request(c)
    \/ \E c \in Contexts : Dispatch(c)
    \/ \E c \in Contexts : AddRequestTags(c, OwnTags(c))
    \/ \E c \in Contexts, resp \in Responses : Respond(c, resp)
    \/ \E c \in Contexts : after_request(c)
    \/ \E c \in Contexts : RequestEnd(c)

SpecConcurrent == InitAtRest /\ [][NextConcurrent]_vars

\* Configuration alone: the constructor, then init_app any number of times
InitConfig == Constructed(SuppliedConfigs) /\ ClocksAtRest

NextConfig ==
    \E arg \in { Some(d) : d \in SuppliedConfigs } \cup {None} :
        \E app_config \in AppConfigs(arg, config, SuppliedConfigs) : init_app(arg, app_config)

SpecConfig == InitConfig /\ [][NextConfig]_vars

-----------------------------------------------------------------------------
(* Properties.  `last` is the call just made, so a property of a call is stated on *)
(* the state the call leaves (last, g, ...), or on the step (g and g') where it    *)
(* compares the state before with the state after.                                 *)

Occurrences(seq, x) == Cardinality({ i \in DOMAIN seq : seq[i] = x })

\* The tag list of context c, empty when there is no context or no list
TagsIn(G, c) ==
    IF c \in Contexts
    THEN IF G[c].active /\ "request_tags" \in DOMAIN G[c].attrs
         THEN G[c].attrs["request_tags"]
         ELSE <<>>
    ELSE <<>>

AutoTag == The(config)["DATADOG_RESPONSE_AUTO_TAG"]

\* after_request has just run in some context and has emitted the timing metric
TimingEmitted == last.op = "after_request" /\ last.out # <<>>

\* C1: with auto-tagging on, the tags of the response-timing metric hold the endpoint
\* tag, the method tag and the status_code tag exactly once each.
C1_TimingTagsOnceEach ==
    (TimingEmitted /\ AutoTag) =>
        LET c    == last.ctx
            tags == last.out[1].tags
            seed == default_request_tags(The(config), request[c])
        IN  /\ Occurrences(tags, seed[1]) = 1
            /\ Occurrences(tags, seed[2]) = 1
            /\ Occurrences(tags, status_tag(response[c])) = 1

\* C1, where each hook is registered once: the tags hold each of the three once
C1_OnceEachWhenRegisteredOnce == after_request_funcs = 1 => C1_TimingTagsOnceEach

\* C2: however many times init_app ran, a request that before_request has seen emits
\* exactly one response-timing metric and at most one response-size metric.
C2_OneTimingPerRequest ==
    \A c \in Contexts :
        ( /\ pc[c] = "process_response"
          /\ after_request_funcs >= 1
          /\ idx[c] = after_request_funcs
          /\ "request_start_time" \in DOMAIN g[c].attrs )
        => (nTiming[c] = 1 /\ nSize[c] <= 1)

\* C3: after_request returns the response it was given; with no start time recorded
\* it emits no metric and leaves the request's tag list (all of flask.g) as it was.
C3_AfterRequestReturnsResponse ==
    [][ \A c \in Contexts :
          (last'.op = "after_request" /\ last'.ctx = c) =>
              /\ last'.ret = response[c]
              /\ response'[c] = response[c]
              /\ ("request_start_time" \notin DOMAIN g[c].attrs) =>
                     /\ last'.out = <<>>
                     /\ g'[c] = g[c]
                     /\ nTiming'[c] = nTiming[c]
                     /\ nSize'[c] = nSize[c] ]_vars

C3_Witness ==
    /\ last.op = "after_request"
    /\ "request_start_time" \notin DOMAIN g[last.ctx].attrs
    /\ TagsIn(g, last.ctx) # <<>>
    /\ AutoTag
    /\ last.out = <<>>

\* C4: with a start time recorded, after_request emits the timing metric first and
\* then a histogram exactly when the response has a content-length header; the
\* histogram's value is the header's number, its tags and sample rate the timing's.
C4_SizeMetric ==
    (last.op = "after_request" /\ "request_start_time" \in DOMAIN g[last.ctx].attrs) =>
        LET out  == last.out
            resp == last.arg
        IN  /\ Len(out) \in {1, 2}
            /\ out[1].method = "timing"
            /\ (Len(out) = 2) <=> ("content-length" \in DOMAIN resp.headers)
            /\ (Len(out) = 2) =>
                   /\ out[2].method = "histogram"
                   /\ (resp.headers["content-length"] = <<"5", "1", "2">>) => out[2].value = 512
                   /\ out[2].tags = out[1].tags
                   /\ out[2].sample_rate = out[1].sample_rate

C4_Witness ==
    /\ last.op = "after_request"
    /\ Len(last.out) = 2
    /\ last.out[2].value = 512
    /\ Len(last.out[2].tags) >= 3

C6_AddRequestTagsAppends ==
    [][ \A c \in Contexts :
          (last'.op = "add_request_tags" /\ last'.ctx = c) =>
              LET old == TagsIn(g, c)
                  new == TagsIn(g', c)
                  T   == last'.arg
              IN  /\ Len(new) = Len(old) + Len(T)
                  /\ \A i \in 1..Len(old) : new[i] = old[i]
                  /\ \A j \in 1..Len(T) : new[Len(old) + j] = T[j]
                  /\ last'.ret = new ]_vars

\* add_request_tags(["a:b"]) was called on a list that held a:b: it holds a:b twice
C6_Witness ==
    /\ last.op = "add_request_tags"
    /\ last.ctx = "r1"
    /\ last.arg = <<TagAB>>
    /\ Occurrences(TagsIn(g, "r1"), TagAB) = 2

\* The defaults of the settings, for given names of the two response metrics
DefaultOf(k, time_name, size_name) ==
    CASE k = "STATSD_HOST" -> "localhost"
      [] k = "STATSD_PORT" -> 8125
      [] k = "STATSD_MAX_BUFFER_SIZE" -> 50
      [] k = "STATSD_NAMESPACE" -> None
      [] k = "STATSD_TAGS" -> None
      [] k = "STATSD_USEMS" -> FALSE
      [] k = "STATSD_SOCKET_PATH" -> None
      [] k = "DATADOG_CONFIGURE_MIDDLEWARE" -> TRUE
      [] k = "DATADOG_RESPONSE_SAMPLE_RATE" -> 1
      [] k = "DATADOG_RESPONSE_AUTO_TAG" -> TRUE
      [] k = "DATADOG_RESPONSE_ENDPOINT_TAG_NAME" -> <<"e", "n", "d", "p", "o", "i", "n", "t">>
      [] k = "DATADOG_RESPONSE_METHOD_TAG_NAME" -> <<"m", "e", "t", "h", "o", "d">>
      [] k = "DATADOG_RESPONSE_METRIC_NAME" -> time_name
      [] k = "DATADOG_RESPONSE_SIZE_METRIC_NAME" -> size_name

\* After init_app every setting has the value supplied, or else its default
MergedOverDefaults(time_name, size_name) ==
    last.op = "init_app" =>
        /\ config # None
        /\ DOMAIN The(config) = Keys
        /\ \A k \in Keys :
               The(config)[k] = IF k \in DOMAIN last.arg
                                THEN last.arg[k]
                                ELSE DefaultOf(k, time_name, size_name)

\* C7 (as claimed): supplied settings are kept and the rest take their defaults, the
\* response metrics being named app.response.time and app.response.size by default.
C7_DefaultsAsClaimed == MergedOverDefaults("app.response.time", "app.response.size")

\* C7 (amended): supplied settings are kept and the rest take their defaults, the
\* response metrics being named flask.response.time and flask.response.size by default.
C7_DefaultsOfTheCode == MergedOverDefaults("flask.response.time", "flask.response.size")

C7_Witness ==
    /\ last.op = "init_app"
    /\ DOMAIN last.arg = {"STATSD_PORT"}
    /\ The(config)["STATSD_PORT"] = 9125
    /\ The(config)["STATSD_HOST"] = "localhost"
    /\ The(config)["DATADOG_RESPONSE_METRIC_NAME"] = "flask.response.time"

\* The tags a helper must forward: the caller's when given, else the request's
TagsToForward(kwargs, c) ==
    IF "tags" \in DOMAIN kwargs
    THEN IF kwargs["tags"] # None THEN kwargs["tags"] ELSE Some(TagsIn(g, c))
    ELSE Some(TagsIn(g, c))

MethodOf(op) ==
    CASE op = "incr" -> "increment" [] op = "decr" -> "decrement" [] op = "gauge" -> "gauge"

C9_RequestStateNotShared ==
    /\ TimingEmitted => SeqRange(last.out[1].tags) \subseteq mine[last.ctx]
    /\ (last.op = "before_request") =>
           /\ Len(TagsIn(g, last.ctx)) = IF AutoTag THEN 2 ELSE 0
           /\ SeqRange(TagsIn(g, last.ctx)) \subseteq mine[last.ctx]

\* r1 emits its timing metric while r2 is in progress with tags of its own
C9_Witness ==
    /\ TimingEmitted
    /\ last.ctx = "r1"
    /\ TagAB \in SeqRange(last.out[1].tags)
    /\ pc["r2"] = "view"
    /\ TagCD \in SeqRange(TagsIn(g, "r2"))
    /\ request["r1"] # request["r2"]

\* C10: the timing metric's value is the elapsed time an upstream layer supplied,
\* when there is one, and else the time on the monotonic clock since before_request
\* read it; in milliseconds when milliseconds are configured.
C10_ElapsedOnMonotonicClock ==
    TimingEmitted =>
        LET attrs   == g[last.ctx].attrs
            elapsed == IF "request_elapsed_time" \in DOMAIN attrs
                       THEN attrs["request_elapsed_time"]
                       ELSE monotonic - attrs["request_start_time"]
        IN  last.out[1].value = IF The(statsd).use_ms THEN Millis(elapsed) ELSE elapsed

====
